---- MODULE Spec2Model ----
(***************************************************************************)
(* Fault-tree Monte-Carlo simulator (src/src/main.rs).                     *)
(*                                                                         *)
(* The fault tree (FT) owns a vector of elements addressed by identifier;  *)
(* basic events carry a status, gates derive their failed state from their *)
(* children.  main runs a campaign of trials; each trial seeds a           *)
(* time-ordered schedule (event_times) with one failure per basic event    *)
(* and then processes the earliest record until a failure makes the root   *)
(* evaluate as failed.                                                     *)
(*                                                                         *)
(* Two specifications share the state:                                     *)
(*   Spec    the campaign of main, from the for-loop head to the write of  *)
(*           the output;                                                   *)
(*   SpecFT  the operations of FT (process_event_time, reset_basic_events) *)
(*           called in any order on a tree, to settle statements about     *)
(*           the operations themselves.                                    *)
(* Sampled intervals (rand/statrs) are nondeterministic choices of a       *)
(* non-negative value; times are integers.                                 *)
(* latest_first_failure is the latest failure time the seeding loop of the *)
(* running trial has sampled (0 before the first).                         *)
(***************************************************************************)
EXTENDS Integers, Sequences, FiniteSets, TLC

VARIABLES ft, event_times, next_event_time, out_string, trial, seeded, pc,
          latest_first_failure, id_gen, call, made

vars == <<ft, event_times, next_event_time, out_string, trial, seeded, pc,
          latest_first_failure, id_gen, call, made>>

\* What the campaign never touches: the identifier counter, the record of
\* the last direct call of an operation and the elements constructed but not
\* yet added to the tree (used by SpecFT and SpecNew).
others == <<id_gen, call, made>>

(***************************************************************************)
(* Program constants.                                                      *)
(***************************************************************************)
STATUS_ALIVE == 0
STATUS_DEAD == 1
STATUS_DYNAMIC == 2

DIST_EXP == 0
DIST_WEIBULL == 1
DIST_GAMMA == 2
DIST_NONE == 3

FT_BASIC == 0
FT_STATIC == 1
FT_SEQUENTIAL == 2

EVENT_FAILURE == 0
EVENT_REPAIR == 1

(***************************************************************************)
(* Bounds of the model.                                                    *)
(***************************************************************************)
\* Number of trials of the campaign (10000 in main).
Trials == 2
\* Largest sampled interval.
MaxInterval == 1
\* Largest time a record is scheduled at; samples that would pass it are
\* not drawn.
MaxTime == 1
\* Event kinds tried by SpecFT: 0..MaxEventType (2 is no known kind).
MaxEventType == 2
\* Distribution tags passed to BasicEvent::new by SpecNew: 0..MaxTag (4 is no
\* known distribution).
MaxTag == 4
\* Number of elements SpecNew constructs.
MaxElements == 3

(***************************************************************************)
(* Elements.  kind tells the gate variants apart (the Rust type).           *)
(***************************************************************************)
\* Mutant of BasicEvent_new_panics: the failure tag is matched as the repair
\* tag is, None included.
BasicEvent_new_panics_lenient(failure_distribution, repair_distribution) ==
    \/ failure_distribution \notin {DIST_EXP, DIST_GAMMA, DIST_WEIBULL, DIST_NONE}
    \/ repair_distribution \notin {DIST_EXP, DIST_GAMMA, DIST_WEIBULL, DIST_NONE}

\* The `_ => panic!` arms of the two matches of BasicEvent::new.
BasicEvent_new_panics(failure_distribution, repair_distribution) ==
    \/ failure_distribution \notin {DIST_EXP, DIST_GAMMA, DIST_WEIBULL}
    \/ repair_distribution \notin {DIST_EXP, DIST_GAMMA, DIST_WEIBULL, DIST_NONE}

BasicEvent_new(id, failure_distribution, repair_distribution) ==
    [id |-> id, kind |-> "BasicEvent", status |-> STATUS_ALIVE,
     failure_distribution |-> failure_distribution,
     repair_distribution |-> repair_distribution]

GateAnd_new(id, children) == [id |-> id, kind |-> "GateAnd", children |-> children]

GateOr_new(id, children) == [id |-> id, kind |-> "GateOr", children |-> children]

GateVote_new(id, children) == [id |-> id, kind |-> "GateVote", children |-> children]

Gate_new(kind, id, children) ==
    CASE kind = "GateAnd" -> GateAnd_new(id, children)
      [] kind = "GateOr" -> GateOr_new(id, children)
      [] kind = "GateVote" -> GateVote_new(id, children)

\* IDGenerator::get_next: counter += 1; counter - 1
get_next(counter) == [counter |-> counter + 1, id |-> (counter + 1) - 1]

get_type(element) == IF element.kind = "BasicEvent" THEN FT_BASIC ELSE FT_STATIC

FT_new == [root |-> 0, elements |-> <<>>]

\* Vec::insert(index, e): e lands at index, the later elements shift right.
VecInsert(v, index, e) == SubSeq(v, 1, index) \o <<e>> \o SubSeq(v, index + 1, Len(v))

\* Vec::insert panics when index > len.
add_element_panics(tree, element) == element.id > Len(tree.elements)

\* Mutant of add_element: the element is inserted at the front.
add_element_front(tree, element) ==
    [tree EXCEPT !.elements = VecInsert(tree.elements, 0, element)]

add_element(tree, element) ==
    [tree EXCEPT !.elements = VecInsert(tree.elements, element.id, element)]

\* elements.get(id): the vector is zero-based, the sequence one-based.
ElementAt(tree, id) == tree.elements[id + 1]

RECURSIVE AddAll(_, _)
AddAll(tree, es) ==
    IF es = <<>> THEN tree ELSE AddAll(add_element(tree, Head(es)), Tail(es))

WithRoot(tree, root_id) == [tree EXCEPT !.root = root_id]

(***************************************************************************)
(* Failed-state queries.  FT::get_failed dispatches on the element; a gate *)
(* walks its children in order, as the loops of the source do.             *)
(***************************************************************************)
RECURSIVE FT_get_failed(_, _)
RECURSIVE GateAnd_loop(_, _, _)
RECURSIVE GateOr_loop(_, _, _)
RECURSIVE GateVote_loop(_, _, _)

\* A status that is neither alive nor dead panics: no other case.
BasicEvent_get_failed(element) ==
    CASE element.status = STATUS_ALIVE -> FALSE
      [] element.status = STATUS_DEAD -> TRUE

\* for child in children { if !ft.get_failed(child) { return false } } true
GateAnd_loop(tree, children, i) ==
    IF i > Len(children) THEN TRUE
    ELSE IF ~FT_get_failed(tree, children[i]) THEN FALSE
    ELSE GateAnd_loop(tree, children, i + 1)

\* Mutant of GateAnd_get_failed: one failed child is enough.
GateAnd_get_failed_any(tree, element) == GateOr_loop(tree, element.children, 1)

GateAnd_get_failed(tree, element) == GateAnd_loop(tree, element.children, 1)

\* for child in children { if ft.get_failed(child) { return true } } false
GateOr_loop(tree, children, i) ==
    IF i > Len(children) THEN FALSE
    ELSE IF FT_get_failed(tree, children[i]) THEN TRUE
    ELSE GateOr_loop(tree, children, i + 1)

\* Mutant of GateOr_get_failed: any dead basic event of the tree fails the
\* gate, not only those among its children.
GateOr_get_failed_anywhere(tree, element) ==
    \E i \in 1..Len(tree.elements) :
      /\ tree.elements[i].kind = "BasicEvent"
      /\ tree.elements[i].status = STATUS_DEAD

\* Mutant of GateOr_get_failed: every child must have failed.
GateOr_get_failed_all(tree, element) == GateAnd_loop(tree, element.children, 1)

GateOr_get_failed(tree, element) == GateOr_loop(tree, element.children, 1)

\* The number of failed children among children[i..].
GateVote_loop(tree, children, i) ==
    IF i > Len(children) THEN 0
    ELSE (IF FT_get_failed(tree, children[i]) THEN 1 ELSE 0)
         + GateVote_loop(tree, children, i + 1)

\* Mutant of GateVote_get_failed: `>=` for `>`.
GateVote_get_failed_atleast(tree, element) ==
    GateVote_loop(tree, element.children, 1) >= Len(element.children) \div 2

GateVote_get_failed(tree, element) ==
    LET threshold == Len(element.children) \div 2
        failed == GateVote_loop(tree, element.children, 1)
    IN  failed > threshold

FT_get_failed(tree, element) ==
    LET e == ElementAt(tree, element)
    IN  CASE e.kind = "BasicEvent" -> BasicEvent_get_failed(e)
          [] e.kind = "GateAnd" -> GateAnd_get_failed(tree, e)
          [] e.kind = "GateOr" -> GateOr_get_failed(tree, e)
          [] e.kind = "GateVote" -> GateVote_get_failed(tree, e)

RECURSIVE get_basic_events_from(_, _)
get_basic_events_from(tree, i) ==
    IF i >= Len(tree.elements) THEN <<>>
    ELSE (IF get_type(ElementAt(tree, i)) = FT_BASIC THEN <<i>> ELSE <<>>)
         \o get_basic_events_from(tree, i + 1)

get_basic_events(tree) == get_basic_events_from(tree, 0)

(***************************************************************************)
(* Status mutation.                                                        *)
(***************************************************************************)
\* Mutant of set_status_panics: only the AND gate refuses.
set_status_panics_and(element) == element.kind = "GateAnd"

\* set_status panics on every gate.
set_status_panics(element) == element.kind # "BasicEvent"

set_status(element, status) == [element EXCEPT !.status = status]

process_event_time_panics(tree, event_time) ==
    \/ event_time.event_type \notin {EVENT_FAILURE, EVENT_REPAIR}
    \/ set_status_panics(ElementAt(tree, event_time.element))

\* Mutant of process_event_time: a repair leaves the status as it is.
process_event_time_norepair(tree, event_time) ==
    CASE event_time.event_type = EVENT_FAILURE ->
           [tree EXCEPT !.elements[event_time.element + 1] = set_status(@, STATUS_DEAD)]
      [] event_time.event_type = EVENT_REPAIR -> tree

process_event_time(tree, event_time) ==
    LET i == event_time.element + 1
    IN  CASE event_time.event_type = EVENT_FAILURE ->
               [tree EXCEPT !.elements[i] = set_status(@, STATUS_DEAD)]
          [] event_time.event_type = EVENT_REPAIR ->
               [tree EXCEPT !.elements[i] = set_status(@, STATUS_ALIVE)]

RECURSIVE reset_loop(_, _)
reset_loop(tree, basic_events) ==
    IF basic_events = <<>> THEN tree
    ELSE reset_loop(
           [tree EXCEPT !.elements[Head(basic_events) + 1] = set_status(@, STATUS_ALIVE)],
           Tail(basic_events))

\* Mutant of reset_basic_events: the first basic event is skipped.
reset_basic_events_skip(tree) ==
    IF get_basic_events(tree) = <<>> THEN tree
    ELSE reset_loop(tree, Tail(get_basic_events(tree)))

reset_basic_events(tree) == reset_loop(tree, get_basic_events(tree))

(***************************************************************************)
(* Sampling.  A law's sample is any value of 0..MaxInterval; the None law  *)
(* yields 0.  sample_failure on the None law panics: no case for it.       *)
(***************************************************************************)
Intervals == 0..MaxInterval

BasicEvent_sample_failure(element) ==
    CASE element.failure_distribution = DIST_EXP -> Intervals
      [] element.failure_distribution = DIST_WEIBULL -> Intervals
      [] element.failure_distribution = DIST_GAMMA -> Intervals

BasicEvent_sample_repair(element) ==
    CASE element.repair_distribution = DIST_EXP -> Intervals
      [] element.repair_distribution = DIST_WEIBULL -> Intervals
      [] element.repair_distribution = DIST_GAMMA -> Intervals
      [] element.repair_distribution = DIST_NONE -> {0}

\* sample_failure on the None law panics.
BasicEvent_sample_failure_panics(element) ==
    element.failure_distribution \notin {DIST_EXP, DIST_WEIBULL, DIST_GAMMA}

\* Mutant of sample_is_err: every element is refused.
sample_is_err_always(tree, element) == element \in 0..(Len(tree.elements) - 1)

\* Err("Not a basic event") for a gate.
sample_is_err(tree, element) == get_type(ElementAt(tree, element)) # FT_BASIC

sample_failure(tree, element) == BasicEvent_sample_failure(ElementAt(tree, element))

sample_repair(tree, element) == BasicEvent_sample_repair(ElementAt(tree, element))

(***************************************************************************)
(* The schedule.                                                           *)
(***************************************************************************)
EventTime(time, element, event_type) ==
    [time |-> time, element |-> element, event_type |-> event_type]

\* Mutant of find_index: the scan never advances.
find_index_front(times, time, index) == index

\* while index < len && time > event_times[index].time { index += 1 }
RECURSIVE find_index(_, _, _)
find_index(times, time, index) ==
    IF index < Len(times) /\ time > times[index + 1].time
    THEN find_index(times, time, index + 1)
    ELSE index

schedule(times, event_time) ==
    VecInsert(times, find_index(times, event_time.time, 0), event_time)

(***************************************************************************)
(* Trees.  Identifiers come from IDGenerator::get_next (0, 1, 2, ...) and  *)
(* the elements are added in identifier order, as main does.               *)
(***************************************************************************)
\* The tree main builds: six repairable basic events, three AND gates over
\* pairs of them, and a majority vote over the three gates as root.
TreeMain ==
    WithRoot(
      AddAll(FT_new,
        <<BasicEvent_new(0, DIST_EXP, DIST_EXP), BasicEvent_new(1, DIST_EXP, DIST_EXP),
          BasicEvent_new(2, DIST_EXP, DIST_EXP), BasicEvent_new(3, DIST_EXP, DIST_EXP),
          BasicEvent_new(4, DIST_EXP, DIST_EXP), BasicEvent_new(5, DIST_EXP, DIST_EXP),
          GateAnd_new(6, <<0, 1>>), GateAnd_new(7, <<2, 3>>), GateAnd_new(8, <<4, 5>>),
          GateVote_new(9, <<6, 7, 8>>)>>),
      9)

\* The first tree main keeps in comments: three basic events that are never
\* repaired under a majority vote.
TreeVote ==
    WithRoot(
      AddAll(FT_new,
        <<BasicEvent_new(0, DIST_WEIBULL, DIST_NONE), BasicEvent_new(1, DIST_WEIBULL, DIST_NONE),
          BasicEvent_new(2, DIST_WEIBULL, DIST_NONE), GateVote_new(3, <<0, 1, 2>>)>>),
      3)

\* The second tree main keeps in comments: two repairable basic events under
\* an AND gate.
TreeAnd ==
    WithRoot(
      AddAll(FT_new,
        <<BasicEvent_new(0, DIST_EXP, DIST_EXP), BasicEvent_new(1, DIST_EXP, DIST_EXP),
          GateAnd_new(2, <<0, 1>>)>>),
      2)

\* Gates of every kind with zero, one, two and three children, over basic
\* events and over gates; the root is a vote over two gates.
TreeMixed ==
    WithRoot(
      AddAll(FT_new,
        <<BasicEvent_new(0, DIST_EXP, DIST_EXP), BasicEvent_new(1, DIST_GAMMA, DIST_NONE),
          BasicEvent_new(2, DIST_WEIBULL, DIST_WEIBULL),
          GateOr_new(3, <<0, 1>>), GateAnd_new(4, <<>>), GateOr_new(5, <<>>),
          GateVote_new(6, <<>>), GateAnd_new(7, <<3, 2>>), GateOr_new(8, <<7, 5, 2>>),
          GateVote_new(9, <<0>>), GateAnd_new(10, <<0, 1, 2>>),
          GateVote_new(11, <<7, 8>>)>>),
      11)

\* A root that no set of failed basic events makes failed.
TreeNever ==
    WithRoot(
      AddAll(FT_new, <<BasicEvent_new(0, DIST_EXP, DIST_NONE), GateOr_new(1, <<>>)>>),
      1)

\* A tree of one gate without children and no basic event at all.
TreeNoBasic == WithRoot(AddAll(FT_new, <<GateAnd_new(0, <<>>)>>), 0)

Trees == {TreeMain, TreeVote, TreeAnd, TreeMixed, TreeNever, TreeNoBasic}

(***************************************************************************)
(* The campaign of main.                                                   *)
(*   pc = "for"    head of `for _ in 0..10000`                             *)
(*        "seed"   the seeding loop over basic_events                      *)
(*        "loop"   head of the event loop                                  *)
(*        "reset"  after the break, before ft.reset_basic_events()         *)
(*        "done"   the output is written                                   *)
(*        "panic"  the run has aborted                                     *)
(* next_event_time is the record the event loop removed last in this       *)
(* trial, NoEvent before the first.                                        *)
(***************************************************************************)
NoEvent == [time |-> -1, element |-> -1, event_type |-> -1]

\* No operation has been called directly.
NoCall == [op |-> "none"]

Max(a, b) == IF a >= b THEN a ELSE b

\* A sample d such that time + d stays within the model's time bound.
Within(samples, time) == {d \in samples : time + d <= MaxTime}

Init ==
    /\ ft \in Trees
    /\ event_times = <<>>
    /\ next_event_time = NoEvent
    /\ out_string = <<>>
    /\ trial = 0
    /\ seeded = 0
    /\ pc = "for"
    /\ latest_first_failure = 0
    /\ id_gen = Len(ft.elements)
    /\ made = <<>>
    /\ call = NoCall

\* for _ in 0..10000 { let mut event_times = Vec::new(); ... }
ForHead ==
    /\ pc = "for"
    /\ IF trial < Trials
       THEN /\ pc' = "seed"
            /\ event_times' = <<>>
            /\ seeded' = 0
            /\ next_event_time' = NoEvent
            /\ latest_first_failure' = 0
            /\ UNCHANGED <<ft, out_string, trial, others>>
       ELSE /\ pc' = "done"
            /\ UNCHANGED <<ft, event_times, next_event_time, out_string, trial, seeded,
                           latest_first_failure, others>>

\* One pass of `for element in &basic_events`: sample the first failure time
\* and insert its record.
Seed ==
    /\ pc = "seed"
    /\ LET basic_events == get_basic_events(ft)
       IN  IF seeded < Len(basic_events)
           THEN LET element == basic_events[seeded + 1]
                IN  \E failure_time \in Within(sample_failure(ft, element), 0) :
                      /\ event_times' =
                           schedule(event_times, EventTime(failure_time, element, EVENT_FAILURE))
                      /\ seeded' = seeded + 1
                      /\ latest_first_failure' = Max(latest_first_failure, failure_time)
                      /\ UNCHANGED <<ft, next_event_time, out_string, trial, pc, others>>
           ELSE /\ pc' = "loop"
                /\ UNCHANGED <<ft, event_times, next_event_time, out_string, trial, seeded,
                               latest_first_failure, others>>

\* Mutant of push_time: the time is put in front of the recorded ones.
push_time_front(out, time) == <<time>> \o out

\* print!("{} ", time); out_string.push_str(..); out_string.push(' ')
push_time(out, time) == Append(out, time)

\* Mutant of root_failed: element 0 is queried instead of root_id.
root_failed_first(tree) == FT_get_failed(tree, 0)

\* if ft.get_failed(root_id)
root_failed(tree) == FT_get_failed(tree, tree.root)

\* One pass of the event loop.
\* Mutant of schedule_repair: a Repair record is inserted for every sampled
\* interval, zero included.
schedule_repair_always(times, time, element, repair_interval) ==
    schedule(times, EventTime(time + repair_interval, element, EVENT_REPAIR))

\* if repair_interval > 0.0 { ... event_times.insert(index, EventTime{..}) }
schedule_repair(times, time, element, repair_interval) ==
    IF repair_interval > 0
    THEN schedule(times, EventTime(time + repair_interval, element, EVENT_REPAIR))
    ELSE times

\* Mutant of schedule_failure: the interval is taken for the time of the
\* next failure.
schedule_failure_absolute(times, time, element, failure_interval) ==
    schedule(times, EventTime(failure_interval, element, EVENT_FAILURE))

\* The Failure record that follows a Repair, at time + failure_interval.
schedule_failure(times, time, element, failure_interval) ==
    schedule(times, EventTime(time + failure_interval, element, EVENT_FAILURE))

Loop ==
    /\ pc = "loop"
    /\ IF event_times = <<>>
       THEN \* event_times.remove(0) on an empty vector panics
            /\ pc' = "panic"
            /\ UNCHANGED <<ft, event_times, next_event_time, out_string, trial, seeded,
                           latest_first_failure, others>>
       ELSE LET next == Head(event_times)
                rest == Tail(event_times)
                time == next.time
                element == next.element
            IN  /\ next_event_time' = next
                /\ UNCHANGED <<trial, seeded, latest_first_failure, others>>
                /\ IF process_event_time_panics(ft, next)
                   THEN /\ pc' = "panic"
                        /\ event_times' = rest
                        /\ UNCHANGED <<ft, out_string>>
                   ELSE /\ ft' = process_event_time(ft, next)
                        /\ IF next.event_type = EVENT_FAILURE
                           THEN IF root_failed(ft')
                                THEN /\ out_string' = push_time(out_string, time)
                                     /\ event_times' = rest
                                     /\ pc' = "reset"
                                ELSE /\ \E repair_interval \in Within(sample_repair(ft, element), time) :
                                          event_times' =
                                            schedule_repair(rest, time, element, repair_interval)
                                     /\ UNCHANGED <<out_string, pc>>
                           ELSE /\ \E failure_interval \in Within(sample_failure(ft, element), time) :
                                     event_times' =
                                       schedule_failure(rest, time, element, failure_interval)
                                /\ UNCHANGED <<out_string, pc>>

\* ft.reset_basic_events() closes the trial; the body of the for loop ends
\* and its locals (event_times, the record removed last) are dropped.
Reset ==
    /\ pc = "reset"
    /\ ft' = reset_basic_events(ft)
    /\ trial' = trial + 1
    /\ event_times' = <<>>
    /\ next_event_time' = NoEvent
    /\ seeded' = 0
    /\ latest_first_failure' = 0
    /\ pc' = "for"
    /\ UNCHANGED <<out_string, others>>

Next == ForHead \/ Seed \/ Loop \/ Reset

Spec == Init /\ [][Next]_vars

(***************************************************************************)
(* The operations of FT on their own.  process_event_time is called with   *)
(* any record (any element, any event kind) and reset_basic_events at any  *)
(* moment.  next_event_time is the record of the last call of              *)
(* process_event_time (NoEvent after a reset) and event_times holds the    *)
(* record of the call before it.                                           *)
(***************************************************************************)
InitFT ==
    /\ ft \in Trees
    /\ event_times = <<>>
    /\ next_event_time = NoEvent
    /\ out_string = <<>>
    /\ trial = 0
    /\ seeded = 0
    /\ pc = "api"
    /\ latest_first_failure = 0
    /\ id_gen = Len(ft.elements)
    /\ made = <<>>
    /\ call = NoCall

Previous == IF next_event_time = NoEvent THEN <<>> ELSE <<next_event_time>>

Call_process_event_time ==
    /\ pc = "api"
    /\ \E element \in 0..(Len(ft.elements) - 1), event_type \in 0..MaxEventType :
         LET event_time == EventTime(0, element, event_type)
         IN  /\ next_event_time' = event_time
             /\ event_times' = Previous
             /\ IF process_event_time_panics(ft, event_time)
                THEN pc' = "panic" /\ ft' = ft
                ELSE pc' = pc /\ ft' = process_event_time(ft, event_time)
    /\ call' = NoCall
    /\ UNCHANGED <<out_string, trial, seeded, latest_first_failure, id_gen, made>>

Call_reset_basic_events ==
    /\ pc = "api"
    /\ ft' = reset_basic_events(ft)
    /\ next_event_time' = NoEvent
    /\ event_times' = Previous
    /\ call' = NoCall
    /\ UNCHANGED <<out_string, trial, seeded, pc, latest_first_failure, id_gen, made>>

\* The Ok or Err value a call returned.
Ok(op, element, value) == [op |-> op, element |-> element, ok |-> TRUE, value |-> value]

Err(op, element, value) == [op |-> op, element |-> element, ok |-> FALSE, value |-> value]

\* ft.sample_failure(element, rng): &self, nothing is written.
Call_sample_failure ==
    /\ pc = "api"
    /\ \E element \in 0..(Len(ft.elements) - 1) :
         IF sample_is_err(ft, element)
         THEN call' = Err("sample_failure", element, "Not a basic event") /\ pc' = pc
         ELSE IF BasicEvent_sample_failure_panics(ElementAt(ft, element))
         THEN call' = NoCall /\ pc' = "panic"
         ELSE /\ \E d \in sample_failure(ft, element) :
                   call' = Ok("sample_failure", element, d)
              /\ pc' = pc
    /\ UNCHANGED <<ft, event_times, next_event_time, out_string, trial, seeded,
                   latest_first_failure, id_gen, made>>

\* ft.sample_repair(element, rng): &self, nothing is written.
Call_sample_repair ==
    /\ pc = "api"
    /\ \E element \in 0..(Len(ft.elements) - 1) :
         IF sample_is_err(ft, element)
         THEN call' = Err("sample_repair", element, "Not a basic event")
         ELSE \E d \in sample_repair(ft, element) :
                call' = Ok("sample_repair", element, d)
    /\ UNCHANGED <<ft, event_times, next_event_time, out_string, trial, seeded,
                   latest_first_failure, id_gen, made, pc>>

\* ft.get_failed(element): &self, nothing is written.
Call_get_failed ==
    /\ pc = "api"
    /\ \E element \in 0..(Len(ft.elements) - 1) :
         call' = Ok("get_failed", element, FT_get_failed(ft, element))
    /\ UNCHANGED <<ft, event_times, next_event_time, out_string, trial, seeded,
                   latest_first_failure, id_gen, made, pc>>

NextFT ==
    \/ Call_process_event_time
    \/ Call_reset_basic_events
    \/ Call_sample_failure
    \/ Call_sample_repair
    \/ Call_get_failed

SpecFT == InitFT /\ [][NextFT]_vars

(***************************************************************************)
(* Construction of a tree: elements are made with identifiers drawn from   *)
(* the generator and kept as locals (made) until add_element moves them    *)
(* into the tree, in any order the caller picks.                           *)
(***************************************************************************)
InitNew ==
    /\ ft = FT_new
    /\ event_times = <<>>
    /\ next_event_time = NoEvent
    /\ out_string = <<>>
    /\ trial = 0
    /\ seeded = 0
    /\ pc = "build"
    /\ latest_first_failure = 0
    /\ id_gen = 0
    /\ made = <<>>
    /\ call = NoCall

\* BasicEvent::new(id_gen.get_next(), failure tag, .., repair tag, ..)
New_BasicEvent ==
    /\ pc = "build"
    /\ id_gen < MaxElements
    /\ \E failure_distribution \in 0..MaxTag, repair_distribution \in 0..MaxTag :
         /\ call' = [op |-> "BasicEvent_new",
                     failure_distribution |-> failure_distribution,
                     repair_distribution |-> repair_distribution]
         /\ id_gen' = get_next(id_gen).counter
         /\ IF BasicEvent_new_panics(failure_distribution, repair_distribution)
            THEN pc' = "panic" /\ made' = made
            ELSE /\ pc' = pc
                 /\ made' = Append(made, BasicEvent_new(get_next(id_gen).id,
                                                        failure_distribution,
                                                        repair_distribution))
    /\ UNCHANGED <<ft, event_times, next_event_time, out_string, trial, seeded,
                   latest_first_failure>>

\* Gate*::new(id_gen.get_next()) and children.add(&e) for locals e.
New_Gate ==
    /\ pc = "build"
    /\ id_gen < MaxElements
    /\ \E kind \in {"GateAnd", "GateOr", "GateVote"},
          children \in {<<>>, [i \in 1..Len(made) |-> made[i].id]} :
         made' = Append(made, Gate_new(kind, get_next(id_gen).id, children))
    /\ id_gen' = get_next(id_gen).counter
    /\ call' = NoCall
    /\ UNCHANGED <<ft, event_times, next_event_time, out_string, trial, seeded,
                   latest_first_failure, pc>>

\* ft.add_element(Box::new(e)) for a local e.
Call_add_element ==
    /\ pc = "build"
    /\ \E i \in 1..Len(made) :
         IF add_element_panics(ft, made[i])
         THEN pc' = "panic" /\ UNCHANGED <<ft, made>>
         ELSE /\ ft' = add_element(ft, made[i])
              /\ made' = SubSeq(made, 1, i - 1) \o SubSeq(made, i + 1, Len(made))
              /\ pc' = pc
    /\ call' = NoCall
    /\ UNCHANGED <<event_times, next_event_time, out_string, trial, seeded,
                   latest_first_failure, id_gen>>

NextNew == New_BasicEvent \/ New_Gate \/ Call_add_element

SpecNew == InitNew /\ [][NextNew]_vars

(***************************************************************************)
(* Vocabulary of the properties.                                           *)
(***************************************************************************)
Ids(tree) == 0..(Len(tree.elements) - 1)

OfKind(tree, kind) == {id \in Ids(tree) : ElementAt(tree, id).kind = kind}

BasicEvents(tree) == OfKind(tree, "BasicEvent")

\* The positions of the children of gate id that evaluate as failed.
FailedChildren(tree, id) ==
    LET children == ElementAt(tree, id).children
    IN  {i \in 1..Len(children) : FT_get_failed(tree, children[i])}

NumChildren(tree, id) == Len(ElementAt(tree, id).children)

NumFailed(tree, id) == Cardinality(FailedChildren(tree, id))

AllAlive(tree) == \A id \in BasicEvents(tree) : ElementAt(tree, id).status = STATUS_ALIVE

(***************************************************************************)
(* Gate semantics (SpecFT reaches every assignment of statuses).           *)
(***************************************************************************)
\* C5 as stated: an AND gate is failed iff every child is failed, and an AND
\* gate without children is not failed.
C5_AndEmptyNotFailed ==
    \A id \in OfKind(ft, "GateAnd") :
      /\ FT_get_failed(ft, id) <=> (NumFailed(ft, id) = NumChildren(ft, id))
      /\ NumChildren(ft, id) = 0 => ~FT_get_failed(ft, id)

\* C5 amended: an AND gate is failed iff every child is failed, for every
\* assignment of statuses; an AND gate without children is failed.
C5_AndAllChildren ==
    \A id \in OfKind(ft, "GateAnd") :
      /\ FT_get_failed(ft, id) <=> (NumFailed(ft, id) = NumChildren(ft, id))
      /\ NumChildren(ft, id) = 0 => FT_get_failed(ft, id)

\* An AND gate with all of its children failed, one with some but not all
\* failed, and one without children, in one tree.
C5_Witness ==
    /\ \E id \in OfKind(ft, "GateAnd") :
         /\ NumChildren(ft, id) >= 2
         /\ NumFailed(ft, id) = NumChildren(ft, id)
         /\ FT_get_failed(ft, id)
    /\ \E id \in OfKind(ft, "GateAnd") :
         /\ NumFailed(ft, id) \in 1..(NumChildren(ft, id) - 1)
         /\ ~FT_get_failed(ft, id)
    /\ \E id \in OfKind(ft, "GateAnd") : NumChildren(ft, id) = 0 /\ FT_get_failed(ft, id)

\* C6: an OR gate is failed iff at least one child is failed, for every
\* assignment of statuses; an OR gate without children is not failed.
C6_OrAnyChild ==
    \A id \in OfKind(ft, "GateOr") :
      /\ FT_get_failed(ft, id) <=> (NumFailed(ft, id) >= 1)
      /\ NumChildren(ft, id) = 0 => ~FT_get_failed(ft, id)

\* An OR gate failed by exactly one of three children, one with no failed
\* child, and one without children, in one tree.
C6_Witness ==
    /\ \E id \in OfKind(ft, "GateOr") :
         NumChildren(ft, id) = 3 /\ NumFailed(ft, id) = 1 /\ FT_get_failed(ft, id)
    /\ \E id \in OfKind(ft, "GateOr") :
         NumChildren(ft, id) >= 2 /\ NumFailed(ft, id) = 0 /\ ~FT_get_failed(ft, id)
    /\ \E id \in OfKind(ft, "GateOr") : NumChildren(ft, id) = 0 /\ ~FT_get_failed(ft, id)

\* C7: a vote gate with f failed children out of n is failed iff
\* f > floor(n/2); for n = 3 iff f is 2 or 3, for n = 2 iff f = 2.
C7_VoteMajority ==
    \A id \in OfKind(ft, "GateVote") :
      LET n == NumChildren(ft, id)
          f == NumFailed(ft, id)
      IN  /\ FT_get_failed(ft, id) <=> (f > n \div 2)
          /\ n = 3 => (FT_get_failed(ft, id) <=> f \in {2, 3})
          /\ n = 2 => (FT_get_failed(ft, id) <=> f = 2)

\* A vote over three gates failed by exactly two of them.
C7_Witness ==
    \E id \in OfKind(ft, "GateVote") :
      /\ NumChildren(ft, id) = 3
      /\ NumFailed(ft, id) = 2
      /\ FT_get_failed(ft, id)
      /\ \A i \in 1..3 : ElementAt(ft, ElementAt(ft, id).children[i]).kind = "GateAnd"

(***************************************************************************)
(* Status mutation (SpecFT).                                               *)
(***************************************************************************)
\* The elements other than id are what they were, and so are the root and
\* the size of the collection.
OthersUnchanged(before, after, id) ==
    /\ after.root = before.root
    /\ Len(after.elements) = Len(before.elements)
    /\ \A j \in Ids(before) : j # id => ElementAt(after, j) = ElementAt(before, j)

\* Nothing but the status of basic events differs between the two trees.
OnlyStatusDiffers(before, after) ==
    /\ after.root = before.root
    /\ Len(after.elements) = Len(before.elements)
    /\ \A j \in Ids(before) :
         IF ElementAt(before, j).kind = "BasicEvent"
         THEN [ElementAt(after, j) EXCEPT !.status = ElementAt(before, j).status]
                = ElementAt(before, j)
         ELSE ElementAt(after, j) = ElementAt(before, j)

\* C8: process_event_time with a Failure record leaves the basic event dead
\* and get_failed true on it; with a Repair record it leaves it alive, so a
\* Failure followed by a Repair ends alive; no other element changes.
C8_StatusRoundTrip ==
    [][(pc' = "api" /\ next_event_time' # NoEvent) =>
         LET id == next_event_time'.element
         IN  /\ OthersUnchanged(ft, ft', id)
             /\ next_event_time'.event_type = EVENT_FAILURE =>
                  /\ ElementAt(ft', id).status = STATUS_DEAD
                  /\ FT_get_failed(ft', id)
             /\ next_event_time'.event_type = EVENT_REPAIR =>
                  ElementAt(ft', id).status = STATUS_ALIVE
             /\ (/\ next_event_time = EventTime(0, id, EVENT_FAILURE)
                 /\ next_event_time'.event_type = EVENT_REPAIR) =>
                  /\ ElementAt(ft, id).status = STATUS_DEAD
                  /\ ElementAt(ft', id).status = STATUS_ALIVE]_vars

\* A Repair applied right after a Failure of the same basic event, which is
\* alive again while another basic event is still dead.
C8_Witness ==
    /\ pc = "api"
    /\ next_event_time.event_type = EVENT_REPAIR
    /\ event_times = <<EventTime(0, next_event_time.element, EVENT_FAILURE)>>
    /\ ElementAt(ft, next_event_time.element).status = STATUS_ALIVE
    /\ \E id \in BasicEvents(ft) : ElementAt(ft, id).status = STATUS_DEAD

\* C9: reset_basic_events leaves every basic event alive and changes nothing
\* but statuses of basic events; on a tree whose basic events are all alive
\* it changes nothing.
C9_ResetFrame ==
    [][(pc = "api" /\ next_event_time' = NoEvent) =>
         /\ AllAlive(ft')
         /\ OnlyStatusDiffers(ft, ft')
         /\ AllAlive(ft) => ft' = ft]_vars

\* The state a reset leaves right after a Failure, in a tree of several
\* basic events: all of them alive.
C9_Witness ==
    /\ pc = "api"
    /\ next_event_time = NoEvent
    /\ event_times # <<>>
    /\ event_times[1].event_type = EVENT_FAILURE
    /\ Cardinality(BasicEvents(ft)) >= 2
    /\ AllAlive(ft)

(***************************************************************************)
(* The campaign (Spec).                                                    *)
(***************************************************************************)
Sorted(times) == \A i \in 1..(Len(times) - 1) : times[i].time <= times[i + 1].time

\* The tree with the basic events of dead dead and all others alive.
WithDead(tree, dead) ==
    [tree EXCEPT !.elements =
       [i \in 1..Len(tree.elements) |->
          IF tree.elements[i].kind = "BasicEvent"
          THEN set_status(tree.elements[i],
                          IF (i - 1) \in dead THEN STATUS_DEAD ELSE STATUS_ALIVE)
          ELSE tree.elements[i]]]

\* Some set of basic events failed together makes the root failed.
Satisfiable(tree) ==
    \E dead \in SUBSET BasicEvents(tree) : FT_get_failed(WithDead(tree, dead), tree.root)

\* C1: the schedule is sorted ascending by time after every insertion, and
\* the record at its front is never earlier than the record removed before
\* it: the records leave in non-decreasing order of time.
C1_ScheduleSorted ==
    /\ Sorted(event_times)
    /\ (next_event_time # NoEvent /\ event_times # <<>>) =>
         next_event_time.time <= event_times[1].time

\* A schedule of several records at different times, a Repair record
\* inserted between two others, after a record has been removed.
C1_Witness ==
    /\ pc = "loop"
    /\ next_event_time # NoEvent
    /\ Len(event_times) >= 3
    /\ event_times[1].time < event_times[Len(event_times)].time
    /\ \E i \in 2..(Len(event_times) - 1) : event_times[i].event_type = EVENT_REPAIR

\* C2 as stated, on its finite side: on a satisfiable tree the run never
\* stops before the campaign is done (no abort, no state without a next
\* step).
C2_TrialTerminates == Satisfiable(ft) => (pc = "done" \/ ENABLED Next)

\* C3: one time is recorded per finished trial, appended behind the earlier
\* ones, each >= 0; when the campaign is done there are Trials of them and
\* every basic event is alive.
C3_CampaignOutput ==
    /\ [](/\ Len(out_string) = trial + (IF pc = "reset" THEN 1 ELSE 0)
          /\ \A i \in 1..Len(out_string) : out_string[i] >= 0
          /\ pc = "done" => (Len(out_string) = Trials /\ AllAlive(ft)))
    /\ [][out_string' # out_string =>
            /\ Len(out_string') = Len(out_string) + 1
            /\ SubSeq(out_string', 1, Len(out_string)) = out_string]_vars

\* The campaign is done on a tree of several basic events, with two
\* different times recorded, the later trial's being the smaller.
C3_Witness ==
    /\ pc = "done"
    /\ Cardinality(BasicEvents(ft)) >= 2
    /\ Len(out_string) = Trials
    /\ out_string[1] > out_string[2]

\* C4: a pass of the event loop ends the trial iff it processed a Failure
\* record after which the root is failed; it then records that record's
\* time; no record is processed after that (the next step is the reset,
\* which drops the schedule); a Repair never ends the trial.
C4_TrialEnd ==
    [][/\ pc = "loop" =>
            /\ (pc' = "reset") <=>
                 (/\ event_times # <<>>
                  /\ Head(event_times).event_type = EVENT_FAILURE
                  /\ FT_get_failed(ft', ft'.root))
            /\ pc' = "reset" =>
                 /\ out_string' = Append(out_string, Head(event_times).time)
                 /\ next_event_time' = Head(event_times)
            /\ pc' # "reset" => out_string' = out_string
       /\ pc # "loop" => (out_string' = out_string /\ pc' # "reset")
       /\ pc = "reset" => (pc' = "for" /\ event_times' = <<>>)]_vars

\* A trial ended by a Failure at a time > 0, the last time recorded, after
\* an earlier Failure had not ended it (two basic events are dead), with
\* records left over in the schedule.
C4_Witness ==
    /\ pc = "reset"
    /\ next_event_time.event_type = EVENT_FAILURE
    /\ next_event_time.time > 0
    /\ out_string[Len(out_string)] = next_event_time.time
    /\ Cardinality({id \in BasicEvents(ft) : ElementAt(ft, id).status = STATUS_DEAD}) >= 2
    /\ event_times # <<>>

\* C10 as stated: in a trial on a satisfiable tree the schedule is not empty
\* when its first record is removed.
C10_ScheduleNeverEmpty == (pc = "loop" /\ Satisfiable(ft)) => event_times # <<>>

(***************************************************************************)
(* Scenario: two repairable basic events under a root AND gate (Spec).     *)
(***************************************************************************)
\* The root is an AND gate over two different basic events, both with a
\* repair law.
TwoRepairableUnderAnd(tree) ==
    LET root == ElementAt(tree, tree.root)
    IN  /\ root.kind = "GateAnd"
        /\ Len(root.children) = 2
        /\ root.children[1] # root.children[2]
        /\ \A i \in 1..2 :
             /\ ElementAt(tree, root.children[i]).kind = "BasicEvent"
             /\ ElementAt(tree, root.children[i]).repair_distribution # DIST_NONE

\* C11: a trial on such a tree records exactly one time, the time is >= 0
\* and not earlier than the later of the two first sampled failure times.
C11_AndScenario ==
    (TwoRepairableUnderAnd(ft) /\ pc = "reset") =>
      /\ Len(out_string) = trial + 1
      /\ out_string[Len(out_string)] >= 0
      /\ out_string[Len(out_string)] >= latest_first_failure

\* The second trial of such a tree has ended at a time > 0, the later of
\* the first failure times, with both basic events dead.
C11_Witness ==
    /\ TwoRepairableUnderAnd(ft)
    /\ pc = "reset"
    /\ trial = 1
    /\ out_string[Len(out_string)] > 0
    /\ out_string[Len(out_string)] = latest_first_failure
    /\ \E id \in BasicEvents(ft) :
         /\ ElementAt(ft, id).status = STATUS_DEAD
         /\ next_event_time.element # id


Gates(tree) == Ids(tree) \ BasicEvents(tree)

\* A step of the harness that called process_event_time.
ProcessCalled == pc = "api" /\ call' = NoCall /\ next_event_time' # NoEvent

\* C12: set_status on a gate is fatal, so process_event_time naming a gate
\* with a Failure or Repair event aborts without modifying the tree, and no
\* gate ever holds a stored status.
C12_GateStatusFatal ==
    /\ [](\A id \in Gates(ft) : "status" \notin DOMAIN ElementAt(ft, id))
    /\ [][(/\ ProcessCalled
           /\ next_event_time'.element \in Gates(ft)
           /\ next_event_time'.event_type \in {EVENT_FAILURE, EVENT_REPAIR})
          => (pc' = "panic" /\ ft' = ft)]_vars

\* process_event_time has aborted on a vote gate of a tree with a dead
\* basic event.
C12_Witness ==
    /\ pc = "panic"
    /\ next_event_time # NoEvent
    /\ next_event_time.element \in OfKind(ft, "GateVote")
    /\ next_event_time.event_type = EVENT_REPAIR
    /\ \E id \in BasicEvents(ft) : ElementAt(ft, id).status = STATUS_DEAD

Sampled == call'.op \in {"sample_failure", "sample_repair"}

\* C13: sample_failure and sample_repair called on a gate return the error
\* "Not a basic event", called on a basic event they return an interval
\* >= 0, and neither changes any state of the tree.
C13_SampleOnGate ==
    [][(pc = "api" /\ call' # call /\ Sampled) =>
         /\ ft' = ft
         /\ pc' = "api"
         /\ call'.element \in Gates(ft) =>
              (~call'.ok /\ call'.value = "Not a basic event")
         /\ call'.element \in BasicEvents(ft) =>
              (call'.ok /\ call'.value \in Nat)]_vars

\* sample_repair has returned the error for a vote gate while a basic event
\* of the tree was dead.
C13_Witness ==
    /\ call.op = "sample_repair"
    /\ call.element \in OfKind(ft, "GateVote")
    /\ ~call.ok
    /\ \E id \in BasicEvents(ft) : ElementAt(ft, id).status = STATUS_DEAD

(***************************************************************************)
(* Queries (SpecFT).                                                       *)
(***************************************************************************)
RECURSIVE Below(_, _)
\* The basic events at or below element id.
Below(tree, id) ==
    IF ElementAt(tree, id).kind = "BasicEvent" THEN {id}
    ELSE LET children == ElementAt(tree, id).children
         IN  UNION {Below(tree, children[i]) : i \in 1..Len(children)}

\* The tree with the status of basic event id replaced.
WithStatus(tree, id, status) ==
    [tree EXCEPT !.elements[id + 1] = set_status(@, status)]

\* C14: get_failed changes no state, asking again without a status change
\* in between returns the same value, and the value for a gate depends only
\* on the statuses of the basic events below it.
C14_GetFailedPure ==
    /\ [](\A g \in Gates(ft) : \A b \in BasicEvents(ft) \ Below(ft, g) :
            \A status \in {STATUS_ALIVE, STATUS_DEAD} :
              FT_get_failed(WithStatus(ft, b, status), g) = FT_get_failed(ft, g))
    /\ [][(pc = "api" /\ call'.op = "get_failed") =>
            /\ ft' = ft
            /\ call'.value = FT_get_failed(ft', call'.element)
            /\ (call.op = "get_failed" /\ call.element = call'.element) =>
                 call'.value = call.value]_vars

\* get_failed has answered true for an OR gate that has a dead basic event
\* below it and an alive one, while a basic event outside it is dead.
C14_Witness ==
    /\ call.op = "get_failed"
    /\ call.element \in OfKind(ft, "GateOr")
    /\ call.value
    /\ \E b \in Below(ft, call.element) : ElementAt(ft, b).status = STATUS_DEAD
    /\ \E b \in Below(ft, call.element) : ElementAt(ft, b).status = STATUS_ALIVE
    /\ \E b \in BasicEvents(ft) \ Below(ft, call.element) :
         ElementAt(ft, b).status = STATUS_DEAD

(***************************************************************************)
(* Construction (SpecNew).                                                 *)
(***************************************************************************)
\* The basic events constructed so far, in the tree or still local.
Constructed ==
    {ft.elements[i] : i \in 1..Len(ft.elements)} \cup {made[i] : i \in 1..Len(made)}

ConstructedBasicEvents == {e \in Constructed : e.kind = "BasicEvent"}

\* A step that called BasicEvent::new.
BasicEventNewCalled == id_gen' # id_gen /\ call'.op = "BasicEvent_new"

\* C15: None is never a failure distribution: BasicEvent::new aborts on it
\* and accepts it for repair, so sample_failure never reaches its panic on
\* a constructed basic event, and sample_repair on a None repair
\* distribution yields exactly 0.
C15_NoneNeverFailure ==
    /\ [](\A e \in ConstructedBasicEvents :
            /\ e.failure_distribution # DIST_NONE
            /\ ~BasicEvent_sample_failure_panics(e)
            /\ e.repair_distribution = DIST_NONE => BasicEvent_sample_repair(e) = {0})
    /\ [][BasicEventNewCalled =>
            /\ call'.failure_distribution = DIST_NONE => (pc' = "panic" /\ made' = made)
            /\ (/\ call'.failure_distribution \in {DIST_EXP, DIST_WEIBULL, DIST_GAMMA}
                /\ call'.repair_distribution = DIST_NONE) =>
                 /\ pc' = "build"
                 /\ Len(made') = Len(made) + 1
                 /\ made'[Len(made')].repair_distribution = DIST_NONE]_vars

\* BasicEvent::new has aborted on a None failure tag after a basic event
\* with a None repair distribution was constructed and added.
C15_Witness ==
    /\ pc = "panic"
    /\ call.op = "BasicEvent_new"
    /\ call.failure_distribution = DIST_NONE
    /\ call.repair_distribution = DIST_EXP
    /\ \E i \in 1..Len(ft.elements) :
         /\ ft.elements[i].kind = "BasicEvent"
         /\ ft.elements[i].repair_distribution = DIST_NONE

\* C17: the generator hands out 0, 1, 2, ... and the elements are added in
\* identifier order (any other order aborts), so every element of the tree
\* sits at the index equal to its identifier.
C17_IndexIsId ==
    /\ [](/\ \A i \in Ids(ft) : ElementAt(ft, i).id = i
          /\ \A e \in Constructed : e.id \in 0..(id_gen - 1)
          /\ Cardinality({e.id : e \in Constructed}) = Len(ft.elements) + Len(made))
    /\ [][id_gen' # id_gen =>
            /\ id_gen' = id_gen + 1
            /\ Len(made') > Len(made) => made'[Len(made')].id = id_gen]_vars

\* Three elements made with identifiers 0, 1, 2, a gate over the two others
\* among them, all added to the tree.
C17_Witness ==
    /\ pc = "build"
    /\ id_gen = 3
    /\ made = <<>>
    /\ Len(ft.elements) = 3
    /\ ElementAt(ft, 2).kind = "GateVote"
    /\ ElementAt(ft, 2).children = <<0, 1>>

(***************************************************************************)
(* The event loop (Spec).                                                  *)
(***************************************************************************)
\* after is before with the one record inserted somewhere.
InsertedOne(before, after, record) ==
    \E k \in 1..Len(after) :
      /\ after[k] = record
      /\ SubSeq(after, 1, k - 1) \o SubSeq(after, k + 1, Len(after)) = before

\* The records of the schedule for element with the given kind.
Pending(times, element, event_type) ==
    {k \in 1..Len(times) :
       times[k].element = element /\ times[k].event_type = event_type}

\* A step of the event loop that processes the front record and goes on
\* with the trial.
Processed(event_type) ==
    /\ pc = "loop"
    /\ pc' = "loop"
    /\ event_times # <<>>
    /\ next_event_time' = Head(event_times)
    /\ Head(event_times).event_type = event_type

\* C16: after a Failure at t that does not fail the root, a repair interval
\* r is sampled: r > 0 inserts exactly one Repair record for the element at
\* t + r, r = 0 inserts none and the element stays Dead, without a Repair
\* record, for the rest of the trial; after a Repair at t exactly one
\* Failure record for the element at t + a sampled failure interval is
\* inserted.
C16_Rescheduling ==
    /\ [][Processed(EVENT_FAILURE) =>
            LET t == Head(event_times).time
                element == Head(event_times).element
                rest == Tail(event_times)
            IN  \E r \in sample_repair(ft, element) :
                  IF r > 0
                  THEN InsertedOne(rest, event_times',
                                   EventTime(t + r, element, EVENT_REPAIR))
                  ELSE /\ event_times' = rest
                       /\ Pending(event_times', element, EVENT_REPAIR) = {}
                       /\ ElementAt(ft', element).status = STATUS_DEAD]_vars
    /\ [][Processed(EVENT_REPAIR) =>
            LET t == Head(event_times).time
                element == Head(event_times).element
                rest == Tail(event_times)
            IN  \E d \in sample_failure(ft, element) :
                  InsertedOne(rest, event_times',
                              EventTime(t + d, element, EVENT_FAILURE))]_vars
    /\ [][(pc = "loop" /\ pc' \in {"loop", "reset"}) =>
            \A b \in BasicEvents(ft) :
              (/\ ElementAt(ft, b).status = STATUS_DEAD
               /\ Pending(event_times, b, EVENT_REPAIR) = {}) =>
                /\ ElementAt(ft', b).status = STATUS_DEAD
                /\ Pending(event_times', b, EVENT_REPAIR) = {}]_vars

\* One basic event was left Dead without a Repair record (r = 0), another
\* has been repaired since and has its next Failure record pending behind a
\* Repair record of a third.
C16_Witness ==
    /\ pc = "loop"
    /\ next_event_time.event_type = EVENT_REPAIR
    /\ Pending(event_times, next_event_time.element, EVENT_FAILURE) # {}
    /\ ElementAt(ft, next_event_time.element).status = STATUS_ALIVE
    /\ \E b \in BasicEvents(ft) :
         /\ ElementAt(ft, b).status = STATUS_DEAD
         /\ Pending(event_times, b, EVENT_REPAIR) = {}
    /\ \E b \in BasicEvents(ft) :
         /\ ElementAt(ft, b).status = STATUS_DEAD
         /\ Pending(event_times, b, EVENT_REPAIR) # {}

\* C18: between two events of a trial, from the end of seeding on, an Alive
\* basic event has exactly one pending Failure record and no Repair record,
\* a Dead one has no Failure record and at most one Repair record; so a
\* Failure is only applied to an Alive basic event and a Repair to a Dead
\* one.
C18_OnePendingRecord ==
    /\ [](pc = "loop" =>
            \A b \in BasicEvents(ft) :
              LET failures == Cardinality(Pending(event_times, b, EVENT_FAILURE))
                  repairs == Cardinality(Pending(event_times, b, EVENT_REPAIR))
              IN  /\ ElementAt(ft, b).status \in {STATUS_ALIVE, STATUS_DEAD}
                  /\ ElementAt(ft, b).status = STATUS_ALIVE =>
                       (failures = 1 /\ repairs = 0)
                  /\ ElementAt(ft, b).status = STATUS_DEAD =>
                       (failures = 0 /\ repairs <= 1))
    /\ [][(/\ pc = "loop"
           /\ event_times # <<>>
           /\ next_event_time' = Head(event_times)
           /\ pc' # "panic") =>
            LET next == Head(event_times)
            IN  /\ next.event_type = EVENT_FAILURE =>
                     ElementAt(ft, next.element).status = STATUS_ALIVE
                /\ next.event_type = EVENT_REPAIR =>
                     ElementAt(ft, next.element).status = STATUS_DEAD]_vars

\* Between two events: a Repair was just applied, its basic event is Alive
\* with its Failure record pending, one basic event is Dead with a Repair
\* record pending and one is Dead with none.
C18_Witness ==
    /\ pc = "loop"
    /\ next_event_time.event_type = EVENT_REPAIR
    /\ ElementAt(ft, next_event_time.element).status = STATUS_ALIVE
    /\ Cardinality(Pending(event_times, next_event_time.element, EVENT_FAILURE)) = 1
    /\ \E b, c \in BasicEvents(ft) :
         /\ b # c
         /\ ElementAt(ft, b).status = STATUS_DEAD
         /\ ElementAt(ft, c).status = STATUS_DEAD
         /\ Cardinality(Pending(event_times, b, EVENT_REPAIR)) = 1
         /\ Pending(event_times, c, EVENT_REPAIR) = {}
         /\ Pending(event_times, c, EVENT_FAILURE) = {}

\* C19: within a trial the clock never moves backwards: every record in the
\* schedule after an event at time t was processed, the inserted one
\* included, has time >= t, successive processed times are non-decreasing,
\* and the recorded failure time is >= the time of the events before it.
C19_ClockMonotone ==
    /\ []((pc \in {"loop", "reset"} /\ next_event_time # NoEvent) =>
            \A k \in 1..Len(event_times) :
              event_times[k].time >= next_event_time.time)
    /\ [][(/\ pc = "loop"
           /\ event_times # <<>>
           /\ next_event_time' = Head(event_times)) =>
            LET t == Head(event_times).time
            IN  /\ t >= 0
                /\ next_event_time # NoEvent => t >= next_event_time.time
                /\ \A k \in 1..Len(event_times') : event_times'[k].time >= t
                /\ pc' = "reset" =>
                     /\ out_string'[Len(out_string')] = t
                     /\ out_string'[Len(out_string')] >= next_event_time.time]_vars

\* A Repair was processed at a time > 0 after an earlier event, and the
\* Failure record it inserted is pending at that time or later.
C19_Witness ==
    /\ pc = "loop"
    /\ next_event_time.event_type = EVENT_REPAIR
    /\ next_event_time.time > 0
    /\ \E k \in Pending(event_times, next_event_time.element, EVENT_FAILURE) :
         event_times[k].time >= next_event_time.time
    /\ \E b \in BasicEvents(ft) :
         /\ b # next_event_time.element
         /\ ElementAt(ft, b).status = STATUS_DEAD

\* The root is not failed when every basic event is alive.
SoundWhenAlive(tree) == ~FT_get_failed(WithDead(tree, {}), tree.root)

\* C20: on a tree whose root is not failed when all basic events are Alive
\* the root is not failed at any point of a running trial (after seeding,
\* after a Repair, after a Failure that does not end the trial), and a
\* Repair never turns the root from not failed to failed.
C20_RootNotFailedWhileRunning ==
    /\ []((SoundWhenAlive(ft) /\ pc \in {"seed", "loop"}) =>
            ~FT_get_failed(ft, ft.root))
    /\ [][(Processed(EVENT_REPAIR) /\ ~FT_get_failed(ft, ft.root)) =>
            ~FT_get_failed(ft', ft'.root)]_vars

\* A trial goes on after a Repair, with the root not failed while some of
\* the basic events below it are dead and a gate below it is failed.
C20_Witness ==
    /\ SoundWhenAlive(ft)
    /\ pc = "loop"
    /\ next_event_time.event_type = EVENT_REPAIR
    /\ ~FT_get_failed(ft, ft.root)
    /\ \E b \in Below(ft, ft.root) : ElementAt(ft, b).status = STATUS_DEAD
    /\ \E g \in Gates(ft) : g # ft.root /\ FT_get_failed(ft, g)

====
